---- MODULE Spec2Model ----
(***************************************************************************)
(* stockdash (src/app1.py): a Streamlit watch-list dashboard.              *)
(*                                                                         *)
(* Three specifications over one set of variables:                         *)
(*   Spec        the watch-list store and the removal workflow: browser    *)
(*               sessions, each with its own st.session_state, sharing the *)
(*               file tracked_stocks.txt;                                  *)
(*   SpecEngine  one recomputation cycle of main() (fetch, align, compute, *)
(*               rank / partition) as a function of its inputs;            *)
(*   SpecStore   save_tracked_stocks / load_tracked_stocks on arbitrary    *)
(*               display names.                                            *)
(*                                                                         *)
(* A Python str is a sequence of one-character strings; a dict is a        *)
(* sequence of [symbol, name] records in insertion order.                  *)
(*                                                                         *)
(* Granularity: a script run touches the shared file at most once (the one *)
(* load of a session's first run, or the one save of an Add / Yes click)   *)
(* and everything else it touches is session-local, so a run is one        *)
(* atomic action.                                                          *)
(***************************************************************************)
EXTENDS Integers, Sequences, FiniteSets, TLC

VARIABLES
    \* ---- Spec: store and removal workflow
    started,            \* started[s]: 'tech_stocks' in st.session_state
    tech_stocks,        \* tech_stocks[s]: st.session_state.tech_stocks
    remove_symbol,      \* remove_symbol[s]: st.session_state.remove_symbol
    show_confirmation,  \* show_confirmation[s]
    file,               \* tracked_stocks.txt: [exists, content]
    last,               \* what the most recent script run that changed the
                        \* session state or the file, or died of an uncaught
                        \* exception, did
    \* ---- SpecEngine: one recomputation cycle, a record of the fields below
    cycle,
    \* ---- SpecStore: save / load / save, a record of the fields below
    roundtrip

storeVars == <<started, tech_stocks, remove_symbol, show_confirmation, file, last>>
vars == <<storeVars, cycle, roundtrip>>

\* the fields of cycle
epc == cycle.epc                          \* "in" before the cycle, "done" after it
cols == cycle.cols                        \* list(st.session_state.tech_stocks.keys())
series == cycle.series                    \* series[i]: what stock.history gave for cols[i]
y_axis == cycle.y_axis                    \* "Dollar Value" | "Percentage Change"
selection_mode == cycle.selection_mode    \* "Top Gainers" | "Top Losers" | "Manual Selection"
multiselect == cycle.multiselect          \* what st.multiselect returns
raised == cycle.raised                    \* the cycle ended in an uncaught exception
selected_stocks == cycle.selected_stocks  \* line 138 / 141
gainer_stocks == cycle.gainer_stocks      \* line 151
loser_stocks == cycle.loser_stocks        \* line 152
warnings == cycle.warnings                \* symbols named by a warning the cycle surfaced

\* the fields of roundtrip
spc == roundtrip.spc                      \* "in", "saved", "loaded", "resaved", "load_raised"
stocks0 == roundtrip.stocks0              \* the mapping first saved
content1 == roundtrip.content1            \* the file after the first save
stocks1 == roundtrip.stocks1              \* the mapping loaded from content1
content2 == roundtrip.content2            \* the file after saving stocks1

----------------------------------------------------------------------------
(* Bounds *)

\* tickers the data source knows
NumSymbols == 2

\* browser sessions open on the app
Sessions == {1, 2}

----------------------------------------------------------------------------
(* Python str helpers *)

Comma == ","
Space == " "
Newline == "\n"

IsWhitespace(c) == c \in {Space, Newline}

RECURSIVE LStrip(_)
LStrip(s) ==
    IF s # <<>> /\ IsWhitespace(Head(s)) THEN LStrip(Tail(s)) ELSE s

RECURSIVE RStrip(_)
RStrip(s) ==
    IF s # <<>> /\ IsWhitespace(s[Len(s)])
    THEN RStrip(SubSeq(s, 1, Len(s) - 1))
    ELSE s

\* str.strip()
Strip(s) == RStrip(LStrip(s))

\* str.split(sep): the pieces between the separators, always at least one
RECURSIVE SplitAcc(_, _, _)
SplitAcc(s, sep, cur) ==
    IF s = <<>> THEN <<cur>>
    ELSE IF Head(s) = sep THEN <<cur>> \o SplitAcc(Tail(s), sep, <<>>)
    ELSE SplitAcc(Tail(s), sep, Append(cur, Head(s)))

Split(s, sep) == SplitAcc(s, sep, <<>>)

\* iterating a text file: each line with its "\n", the last one maybe without
RECURSIVE FileLinesAcc(_, _)
FileLinesAcc(s, cur) ==
    IF s = <<>> THEN (IF cur = <<>> THEN <<>> ELSE <<cur>>)
    ELSE IF Head(s) = Newline
         THEN <<Append(cur, Newline)>> \o FileLinesAcc(Tail(s), <<>>)
    ELSE FileLinesAcc(Tail(s), Append(cur, Head(s)))

FileLines(content) == FileLinesAcc(content, <<>>)

LowerChars == <<"a", "b", "c", "d">>
UpperChars == <<"A", "B", "C", "D">>

UpperChar(c) ==
    IF \E i \in 1..Len(LowerChars) : LowerChars[i] = c
    THEN UpperChars[CHOOSE i \in 1..Len(LowerChars) : LowerChars[i] = c]
    ELSE c

\* str.upper()
Upper(s) == [i \in 1..Len(s) |-> UpperChar(s[i])]

----------------------------------------------------------------------------
(* Python dict helpers: insertion-ordered *)

None == <<>>

Keys(d) == {d[i].symbol : i \in 1..Len(d)}

KeyList(d) == [i \in 1..Len(d) |-> d[i].symbol]

Items(d) == {d[i] : i \in 1..Len(d)}

\* d[k] = v
DictSet(d, k, v) ==
    IF k \in Keys(d)
    THEN [i \in 1..Len(d) |->
            IF d[i].symbol = k THEN [symbol |-> k, name |-> v] ELSE d[i]]
    ELSE Append(d, [symbol |-> k, name |-> v])

\* a del that drops the oldest entry instead of d[k]
DictDelOldest(d, k) == Tail(d)

\* del d[k], for k in d
DictDel(d, k) == SelectSeq(d, LAMBDA e : e.symbol # k)

----------------------------------------------------------------------------
(* The WatchList store: load_tracked_stocks and save_tracked_stocks *)

NoFile == [exists |-> FALSE, content |-> <<>>]

\* f"{symbol},{name}\n"
FormatLine(symbol, name) == symbol \o <<Comma>> \o name \o <<Newline>>

\* what save_tracked_stocks writes when nothing fails
RECURSIVE SaveContent(_)
SaveContent(stocks) ==
    IF stocks = <<>> THEN <<>>
    ELSE FormatLine(stocks[1].symbol, stocks[1].name) \o SaveContent(Tail(stocks))

save_tracked_stocks(stocks) == [exists |-> TRUE, content |-> SaveContent(stocks)]

\* the dict comprehension of load_tracked_stocks over the lines of the file;
\* a line with no comma makes split(',')[1] raise IndexError
RECURSIVE LoadLines(_, _)
LoadLines(lines, acc) ==
    IF lines = <<>> THEN [ok |-> TRUE, stocks |-> acc]
    ELSE LET parts == Split(Strip(Head(lines)), Comma)
         IN  IF Len(parts) < 2 THEN [ok |-> FALSE, stocks |-> <<>>]
             ELSE LoadLines(Tail(lines), DictSet(acc, parts[1], parts[2]))

load_tracked_stocks(f) ==
    IF f.exists THEN LoadLines(FileLines(f.content), <<>>)
    ELSE [ok |-> TRUE, stocks |-> <<>>]

\* The file after a save that raised: open() failed and the file is as it was,
\* or open(..., 'w') truncated it and the buffered lines never reached it.
FailedSaveFiles(f, stocks) == {f, save_tracked_stocks(<<>>)}

----------------------------------------------------------------------------
(* Spec: sessions, Add Stock, Remove / Yes / No *)

Tickers == {<<UpperChars[i]>> : i \in 1..NumSymbols}

\* what the user can type into "Enter stock symbol"
Inputs == {<<>>, <<UpperChars[1]>>} \cup {<<LowerChars[i]>> : i \in 1..NumSymbols}

\* stock.info['longName'] of a symbol the data source knows
LongName(symbol) ==
    CASE symbol = <<"A">> -> <<"x">>
      [] symbol = <<"B">> -> <<"y">>
      [] symbol = <<"C">> -> <<"z">>
      [] OTHER -> <<"w">>

\* what a cycle starts from: the tracked symbols, their series, the widgets
CycleInput(c, ser, y, mode, picked) ==
    [epc |-> "in", cols |-> c, series |-> ser, y_axis |-> y, selection_mode |-> mode,
     multiselect |-> picked, raised |-> FALSE, selected_stocks |-> <<>>,
     gainer_stocks |-> <<>>, loser_stocks |-> <<>>, warnings |-> {}]

EngineIdle ==
    cycle = [CycleInput(<<>>, <<>>, "Dollar Value", "Top Gainers", <<>>) EXCEPT !.epc = "off"]

RoundTripInput(stocks) ==
    [spc |-> "in", stocks0 |-> stocks, content1 |-> NoFile, stocks1 |-> <<>>,
     content2 |-> NoFile]

StoreRtIdle == roundtrip = [RoundTripInput(<<>>) EXCEPT !.spc = "off"]

StoreIdle ==
    /\ started = [s \in Sessions |-> FALSE]
    /\ tech_stocks = [s \in Sessions |-> <<>>]
    /\ remove_symbol = [s \in Sessions |-> None]
    /\ show_confirmation = [s \in Sessions |-> FALSE]
    /\ file = NoFile
    /\ last = "none"

\* Before any session: no file yet, or a file an earlier run of the app saved.
Init ==
    /\ started = [s \in Sessions |-> FALSE]
    /\ tech_stocks = [s \in Sessions |-> <<>>]
    /\ remove_symbol = [s \in Sessions |-> None]
    /\ show_confirmation = [s \in Sessions |-> FALSE]
    /\ file \in {NoFile,
                 save_tracked_stocks(<<[symbol |-> <<"A">>, name |-> LongName(<<"A">>)]>>)}
    /\ last = "none"
    /\ EngineIdle
    /\ StoreRtIdle

\* lines 22-29, a session's first script run
StartSession(s) ==
    /\ ~started[s]
    /\ LET r == load_tracked_stocks(file)
       IN  IF r.ok
           THEN /\ started' = [started EXCEPT ![s] = TRUE]
                /\ tech_stocks' = [tech_stocks EXCEPT ![s] = r.stocks]
                /\ remove_symbol' = [remove_symbol EXCEPT ![s] = None]
                /\ show_confirmation' = [show_confirmation EXCEPT ![s] = FALSE]
                /\ last' = "start"
           ELSE /\ UNCHANGED <<started, tech_stocks, remove_symbol, show_confirmation>>
                /\ last' = "start_raised"
    /\ UNCHANGED <<file, cycle, roundtrip>>

\* lines 163-176, "Add Stock" clicked with new_stock typed: the lookup and the
\* save succeed
AddStock(s, new_stock) ==
    LET new_stock_upper == Upper(new_stock)
        added == DictSet(tech_stocks[s], new_stock_upper, LongName(new_stock_upper))
    IN  /\ started[s]
        /\ new_stock # <<>>
        /\ new_stock_upper \notin Keys(tech_stocks[s])
        /\ tech_stocks' = [tech_stocks EXCEPT ![s] = added]
        /\ file' = save_tracked_stocks(added)
        /\ last' = "added"
        /\ UNCHANGED <<started, remove_symbol, show_confirmation, cycle, roundtrip>>

\* lines 163-176: stock.info or stock_info['longName'] raises, caught at 173;
\* nothing but the message changes
AddStockLookupRaises(s, new_stock) ==
    /\ started[s]
    /\ new_stock # <<>>
    /\ Upper(new_stock) \notin Keys(tech_stocks[s])
    /\ UNCHANGED last
    /\ UNCHANGED <<started, tech_stocks, remove_symbol, show_confirmation, file,
                   cycle, roundtrip>>

\* lines 163-176: line 170 has stored the entry, then save_tracked_stocks
\* raises, caught at 173
AddStockSaveRaises(s, new_stock) ==
    LET new_stock_upper == Upper(new_stock)
        added == DictSet(tech_stocks[s], new_stock_upper, LongName(new_stock_upper))
    IN  /\ started[s]
        /\ new_stock # <<>>
        /\ new_stock_upper \notin Keys(tech_stocks[s])
        /\ tech_stocks' = [tech_stocks EXCEPT ![s] = added]
        /\ file' \in FailedSaveFiles(file, added)
        /\ last' = "add_failed_save"
        /\ UNCHANGED <<started, remove_symbol, show_confirmation, cycle, roundtrip>>

\* lines 163-176: nothing typed (164) or the symbol is tracked already (175)
AddStockNothing(s, new_stock) ==
    /\ started[s]
    /\ new_stock = <<>> \/ Upper(new_stock) \in Keys(tech_stocks[s])
    /\ UNCHANGED last
    /\ UNCHANGED <<started, tech_stocks, remove_symbol, show_confirmation, file,
                   cycle, roundtrip>>

\* lines 208-210, "Remove" clicked on the row of a tracked symbol
RequestRemoval(s, symbol) ==
    /\ started[s]
    /\ symbol \in Keys(tech_stocks[s])
    /\ remove_symbol' = [remove_symbol EXCEPT ![s] = symbol]
    /\ show_confirmation' = [show_confirmation EXCEPT ![s] = TRUE]
    /\ last' = "remove_requested"
    /\ UNCHANGED <<started, tech_stocks, file, cycle, roundtrip>>

\* lines 212-220, "Yes" clicked, del and save succeed
ConfirmRemove(s) ==
    LET symbol == remove_symbol[s]
        kept == DictDel(tech_stocks[s], symbol)
    IN  /\ started[s]
        /\ show_confirmation[s]
        /\ symbol \in Keys(tech_stocks[s])
        /\ tech_stocks' = [tech_stocks EXCEPT ![s] = kept]
        /\ file' = save_tracked_stocks(kept)
        /\ show_confirmation' = [show_confirmation EXCEPT ![s] = FALSE]
        /\ last' = "removed"
        /\ UNCHANGED <<started, remove_symbol, cycle, roundtrip>>

\* lines 212-218, "Yes" clicked, line 217 raises KeyError: the run ends there
ConfirmRemoveKeyError(s) ==
    /\ started[s]
    /\ show_confirmation[s]
    /\ remove_symbol[s] \notin Keys(tech_stocks[s])
    /\ last' = "remove_raised_key"
    /\ UNCHANGED <<started, tech_stocks, remove_symbol, show_confirmation, file,
                   cycle, roundtrip>>

\* lines 212-218, "Yes" clicked, line 217 deletes, line 218 raises: the run
\* ends before line 219
ConfirmRemoveSaveRaises(s) ==
    LET symbol == remove_symbol[s]
        kept == DictDel(tech_stocks[s], symbol)
    IN  /\ started[s]
        /\ show_confirmation[s]
        /\ symbol \in Keys(tech_stocks[s])
        /\ tech_stocks' = [tech_stocks EXCEPT ![s] = kept]
        /\ file' \in FailedSaveFiles(file, kept)
        /\ last' = "remove_raised_save"
        /\ UNCHANGED <<started, remove_symbol, show_confirmation, cycle, roundtrip>>

\* a "No" that runs the removal all the same
CancelRemoveDeletes(s) ==
    LET kept == DictDel(tech_stocks[s], remove_symbol[s])
    IN  /\ started[s]
        /\ show_confirmation[s]
        /\ tech_stocks' = [tech_stocks EXCEPT ![s] = kept]
        /\ file' = save_tracked_stocks(kept)
        /\ show_confirmation' = [show_confirmation EXCEPT ![s] = FALSE]
        /\ last' = "cancelled"
        /\ UNCHANGED <<started, remove_symbol, cycle, roundtrip>>

\* lines 221-222, "No" clicked
CancelRemove(s) ==
    /\ started[s]
    /\ show_confirmation[s]
    /\ show_confirmation' = [show_confirmation EXCEPT ![s] = FALSE]
    /\ last' = "cancelled"
    /\ UNCHANGED <<started, tech_stocks, remove_symbol, file, cycle, roundtrip>>

\* line 212 false: a click on a "Yes" / "No" left on the page by the run that
\* cancelled finds the buttons not created in this run
ClickWhileIdle(s) ==
    /\ started[s]
    /\ ~show_confirmation[s]
    /\ UNCHANGED last
    /\ UNCHANGED <<started, tech_stocks, remove_symbol, show_confirmation, file,
                   cycle, roundtrip>>

Next ==
    \/ \E s \in Sessions : StartSession(s)
    \/ \E s \in Sessions, new_stock \in Inputs : AddStock(s, new_stock)
    \/ \E s \in Sessions, new_stock \in Inputs : AddStockLookupRaises(s, new_stock)
    \/ \E s \in Sessions, new_stock \in Inputs : AddStockSaveRaises(s, new_stock)
    \/ \E s \in Sessions, new_stock \in Inputs : AddStockNothing(s, new_stock)
    \/ \E s \in Sessions, symbol \in Tickers : RequestRemoval(s, symbol)
    \/ \E s \in Sessions : ConfirmRemove(s)
    \/ \E s \in Sessions : ConfirmRemoveKeyError(s)
    \/ \E s \in Sessions : ConfirmRemoveSaveRaises(s)
    \/ \E s \in Sessions : CancelRemove(s)
    \/ \E s \in Sessions : ClickWhileIdle(s)

Spec == Init /\ [][Next]_vars

\* The same sessions when no lookup and no file write ever fails.
NextNoFailure ==
    \/ \E s \in Sessions : StartSession(s)
    \/ \E s \in Sessions, new_stock \in Inputs : AddStock(s, new_stock)
    \/ \E s \in Sessions, new_stock \in Inputs : AddStockNothing(s, new_stock)
    \/ \E s \in Sessions, symbol \in Tickers : RequestRemoval(s, symbol)
    \/ \E s \in Sessions : ConfirmRemove(s)
    \/ \E s \in Sessions : CancelRemove(s)
    \/ \E s \in Sessions : ClickWhileIdle(s)

SpecNoFailure == Init /\ [][NextNoFailure]_vars

----------------------------------------------------------------------------
(* Claims about the store and the removal workflow *)

\* the lines of the persisted file, as a set
FileLineSet(f) == {FileLines(f.content)[i] : i \in 1..Len(FileLines(f.content))}

\* the symbol field of every line of the persisted file
FileSymbols(f) == {Split(Strip(l), Comma)[1] : l \in FileLineSet(f)}

EntryLine(e) == FormatLine(e.symbol, e.name)

\* C1: a "Remove" click on the row of S makes S the pending symbol, and a "Yes"
\* click that runs to line 219 on pending symbol S, tracked, leaves S out of
\* the session's mapping and out of the file, keeps every other entry of the
\* mapping in the mapping and in the file, and ends Idle.
C1_ConfirmRemoves ==
    [][/\ last' = "remove_requested" =>
            \A s \in Sessions, symbol \in Tickers :
                RequestRemoval(s, symbol) =>
                    show_confirmation'[s] /\ remove_symbol'[s] = symbol
       /\ last' = "removed" =>
            LET symbolsAfter == FileSymbols(file')
                linesAfter == FileLineSet(file')
            IN  \E s \in Sessions :
                    /\ show_confirmation[s]
                    /\ ~show_confirmation'[s]
                    /\ remove_symbol[s] \in Keys(tech_stocks[s])
                    /\ remove_symbol[s] \notin Keys(tech_stocks'[s])
                    /\ remove_symbol[s] \notin symbolsAfter
                    /\ \A e \in Items(tech_stocks[s]) :
                          e.symbol # remove_symbol[s] =>
                              /\ e \in Items(tech_stocks'[s])
                              /\ EntryLine(e) \in linesAfter]_vars

\* C1 witness: a confirmed removal has just run and another entry survived it,
\* in the mapping and in the file.
C1_Witness ==
    /\ last = "removed"
    /\ \E s \in Sessions :
          /\ ~show_confirmation[s]
          /\ remove_symbol[s] # None
          /\ remove_symbol[s] \notin Keys(tech_stocks[s])
          /\ tech_stocks[s] # <<>>
          /\ file = save_tracked_stocks(tech_stocks[s])

\* C2: a "Yes" click whose removal fails (KeyError at line 217, or the save
\* raising at line 218) still ends Idle.
C2_FailedRemovalEndsIdle ==
    [][last' \in {"remove_raised_key", "remove_raised_save"} =>
        \A s \in Sessions : show_confirmation[s] => ~show_confirmation'[s]]_vars

\* the session's mapping and the file hold the same symbol -> name entries
Agree(s) ==
    /\ load_tracked_stocks(file).ok
    /\ Items(load_tracked_stocks(file).stocks) = Items(tech_stocks[s])

\* C3: an Add that fails, on the lookup or on the file write, leaves the
\* session's mapping as it was, and a mapping that agreed with the file before
\* the Add agrees with it after.
C3_FailedAddChangesNothing ==
    [][\A s \in Sessions, new_stock \in Inputs :
          (AddStockLookupRaises(s, new_stock) \/ AddStockSaveRaises(s, new_stock)) =>
              /\ tech_stocks'[s] = tech_stocks[s]
              /\ Agree(s) => Agree(s)']_vars

\* C4: no update is lost: each successful Add leaves the file holding what it
\* held plus the added symbol, each confirmed removal what it held minus the
\* removed one, whichever session ran it.
C4_NoLostUpdate ==
    [][/\ \A s \in Sessions, new_stock \in Inputs :
            AddStock(s, new_stock) =>
                FileSymbols(file') = FileSymbols(file) \cup {Upper(new_stock)}
       /\ \A s \in Sessions :
            ConfirmRemove(s) =>
                FileSymbols(file') = FileSymbols(file) \ {remove_symbol[s]}]_vars

\* C5: a "No" click while a removal is pending ends Idle and changes no
\* session's mapping, no pending symbol and not the file.
C5_CancelChangesNothing ==
    [][last' = "cancelled" =>
        /\ \E s \in Sessions : show_confirmation[s] /\ ~show_confirmation'[s]
        /\ tech_stocks' = tech_stocks
        /\ remove_symbol' = remove_symbol
        /\ file' = file]_vars

\* C5 witness: a cancel has just run; the symbol it was about and another
\* entry are still tracked.
C5_Witness ==
    /\ last = "cancelled"
    /\ \E s \in Sessions :
          /\ ~show_confirmation[s]
          /\ remove_symbol[s] \in Keys(tech_stocks[s])
          /\ Len(tech_stocks[s]) >= 2

\* C10: while a session awaits confirmation its pending symbol is set and is
\* a key of its mapping.
C10_PendingIsTracked ==
    \A s \in Sessions :
        show_confirmation[s] =>
            /\ remove_symbol[s] # None
            /\ remove_symbol[s] \in Keys(tech_stocks[s])

----------------------------------------------------------------------------
(* SpecEngine: one recomputation cycle, lines 129-158 *)

\* most columns a run of the cycle is given
MaxCols == 11
\* up to this many columns, every kind of series is tried for each of them
RichCols == 2

\* [:10] at lines 138 and 141
TopN == 10
\* [:5] at line 147
DefaultSelected == 5
\* max_selections at line 148
max_selections == 25

\* timestamps of the bars the data source returns
Times == {1, 2}

\* A series is what stock.history(...)['Close'] gave: it raised, or it holds a
\* close price at some of the timestamps (at none: an empty series).
SeriesOf(points) == [raises |-> FALSE, points |-> points]
RaisingFetch == [raises |-> TRUE, points |-> <<>>]

RichSeries ==
    {RaisingFetch} \cup
    UNION {{SeriesOf(f) : f \in [T -> {1, 2}]} : T \in SUBSET Times}

\* 1 -> 2 (+1, +100%) and 2 -> 4 (+2, +100%)
TailSeries == {SeriesOf(<<1, 2>>), SeriesOf(<<2, 4>>)}

\* a float: nan, or the quotient num / den with den > 0
NaN == [nan |-> TRUE, num |-> 0, den |-> 1]
Float(num, den) == [nan |-> FALSE, num |-> num, den |-> den]

\* a < b on floats: false whenever either is nan
Lt(a, b) == ~a.nan /\ ~b.nan /\ a.num * b.den < b.num * a.den
\* a > 0 and a <= 0: both false for nan
GtZero(a) == ~a.nan /\ a.num > 0
LeZero(a) == ~a.nan /\ a.num <= 0

Reverse(xs) == [i \in 1..Len(xs) |-> xs[Len(xs) + 1 - i]]

SetMin(S) == CHOOSE x \in S : \A y \in S : x <= y
SetMax(S) == CHOOSE x \in S : \A y \in S : x >= y

\* get_timeframe_data: pd.DataFrame(stock_data) has the union of the series'
\* timestamps as its index, and nan where a series has no bar; the call raises
\* if a history() call did
get_timeframe_data(ser) ==
    [raises |-> \E i \in 1..Len(ser) : ser[i].raises,
     index  |-> UNION {DOMAIN ser[i].points : i \in 1..Len(ser)},
     column |-> [i \in 1..Len(ser) |-> ser[i].points]]

\* df[column] at one row of the frame
Cell(df, i, t) ==
    IF t \in DOMAIN df.column[i] THEN Float(df.column[i][t], 1) ELSE NaN

\* lines 45-50 for one column
ChangeOf(start_price, end_price, y) ==
    IF start_price.nan \/ end_price.nan THEN NaN
    ELSE IF y = "Dollar Value"
         THEN Float(end_price.num - start_price.num, 1)
         ELSE Float((end_price.num - start_price.num) * 100, start_price.num)

\* calculate_changes: iloc[0] raises IndexError on a frame with columns and no
\* rows; changes[i] is the change of column i
calculate_changes(df, y) ==
    IF Len(df.column) > 0 /\ df.index = {}
    THEN [raises |-> TRUE, changes |-> <<>>]
    ELSE [raises |-> FALSE,
          changes |-> [i \in 1..Len(df.column) |->
                          ChangeOf(Cell(df, i, SetMin(df.index)),
                                   Cell(df, i, SetMax(df.index)), y)]]

\* list.sort on fewer than 64 items: the run found at the front (reversed if
\* strictly descending), then binary insertion of the rest; keys are compared
\* with < only.  xs holds column numbers, key[x] is the key of column x.
RECURSIVE RunEnd(_, _, _, _)
RunEnd(xs, key, descending, n) ==
    IF n < Len(xs) /\ (Lt(key[xs[n + 1]], key[xs[n]]) <=> descending)
    THEN RunEnd(xs, key, descending, n + 1)
    ELSE n

RECURSIVE BinarySearch(_, _, _, _, _)
BinarySearch(xs, key, pivot, l, r) ==
    IF l >= r THEN l
    ELSE LET p == l + ((r - l) \div 2)
         IN  IF Lt(key[pivot], key[xs[p + 1]])
             THEN BinarySearch(xs, key, pivot, l, p)
             ELSE BinarySearch(xs, key, pivot, p + 1, r)

RECURSIVE BinarySort(_, _, _)
BinarySort(sortedPart, rest, key) ==
    IF rest = <<>> THEN sortedPart
    ELSE LET l == BinarySearch(sortedPart, key, Head(rest), 0, Len(sortedPart))
         IN  BinarySort(SubSeq(sortedPart, 1, l) \o <<Head(rest)>>
                            \o SubSeq(sortedPart, l + 1, Len(sortedPart)),
                        Tail(rest), key)

ListSort(xs, key) ==
    IF Len(xs) < 2 THEN xs
    ELSE LET descending == Lt(key[xs[2]], key[xs[1]])
             n == RunEnd(xs, key, descending, 2)
             run == IF descending THEN Reverse(SubSeq(xs, 1, n)) ELSE SubSeq(xs, 1, n)
         IN  BinarySort(run, SubSeq(xs, n + 1, Len(xs)), key)

\* a reverse sort that reverses the ascending result: equal keys change places
SortedReversingResult(xs, key, reverse) ==
    IF reverse THEN Reverse(ListSort(xs, key)) ELSE ListSort(xs, key)

\* sorted(changes, key=changes.get, reverse=...): with reverse the list is
\* reversed before and after the sort, which keeps equal keys in their order
Sorted(xs, key, reverse) ==
    IF reverse THEN Reverse(ListSort(Reverse(xs), key)) ELSE ListSort(xs, key)

\* xs[:n]
Take(xs, n) == SubSeq(xs, 1, IF Len(xs) < n THEN Len(xs) ELSE n)

ColOf(c, symbol) == CHOOSE i \in 1..Len(c) : c[i] = symbol

NoOutput(isRaised) ==
    [raised |-> isRaised, selected_stocks |-> <<>>, gainer_stocks |-> <<>>,
     loser_stocks |-> <<>>, warnings |-> {}]

\* lines 129-158: what one cycle leaves, given the tracked symbols c, the
\* series ser the data source gives for them, and the widgets' values.  No
\* line of the cycle surfaces a warning.
Cycle(c, ser, y, mode, picked) ==
    LET df == get_timeframe_data(ser)
        calc == calculate_changes(df, y)
        changes == calc.changes
        order(reverse) ==
            LET top == Take(Sorted([i \in 1..Len(c) |-> i], changes, reverse), TopN)
            IN  [i \in 1..Len(top) |-> c[top[i]]]
    IN  IF df.raises \/ calc.raises THEN NoOutput(TRUE)
        ELSE IF mode = "Top Gainers"
             THEN [NoOutput(FALSE) EXCEPT !.selected_stocks = order(TRUE)]
        ELSE IF mode = "Top Losers"
             THEN [NoOutput(FALSE) EXCEPT !.selected_stocks = order(FALSE)]
        ELSE IF picked = <<>> THEN NoOutput(FALSE)
        ELSE [NoOutput(FALSE) EXCEPT
                 !.gainer_stocks =
                     SelectSeq(picked, LAMBDA stock : GtZero(changes[ColOf(c, stock)])),
                 !.loser_stocks =
                     SelectSeq(picked, LAMBDA stock : LeZero(changes[ColOf(c, stock)]))]

\* every way to pick distinct symbols of c one after the other
RECURSIVE Picks(_)
Picks(S) ==
    {<<>>} \cup UNION {{<<x>> \o p : p \in Picks(S \ {x})} : x \in S}

\* the i-th tracked symbol: AA, AB, AC, AD, BA, ...
Symbol(i) == <<UpperChars[((i - 1) \div 4) + 1], UpperChars[((i - 1) % 4) + 1]>>

SelectionModes == {"Top Gainers", "Top Losers", "Manual Selection"}

InitEngine ==
    /\ StoreIdle
    /\ StoreRtIdle
    /\ \E n \in 0..MaxCols, mode \in SelectionModes :
          \E ser \in [1..n -> IF n <= RichCols THEN RichSeries ELSE TailSeries],
             y \in {"Dollar Value", "Percentage Change"},
             picked \in
                IF mode # "Manual Selection" THEN {<<>>}
                ELSE IF n <= RichCols
                     THEN {p \in Picks({Symbol(i) : i \in 1..n}) : Len(p) <= max_selections}
                     ELSE {Take([i \in 1..n |-> Symbol(i)], DefaultSelected)} :
             cycle = CycleInput([i \in 1..n |-> Symbol(i)], ser, y, mode, picked)

\* one script run down to line 158
RunCycle ==
    /\ epc = "in"
    /\ LET out == Cycle(cols, series, y_axis, selection_mode, multiselect)
       IN  cycle' = [cycle EXCEPT !.epc = "done",
                                  !.raised = out.raised,
                                  !.selected_stocks = out.selected_stocks,
                                  !.gainer_stocks = out.gainer_stocks,
                                  !.loser_stocks = out.loser_stocks,
                                  !.warnings = out.warnings]
    /\ UNCHANGED <<storeVars, roundtrip>>

SpecEngine == InitEngine /\ [][RunCycle]_vars

----------------------------------------------------------------------------
(* Claims about the recomputation cycle *)

Range(xs) == {xs[i] : i \in 1..Len(xs)}

\* the change of every column under value mode y, from the series in the state
ChangesBy(y) == calculate_changes(get_timeframe_data(series), y).changes

\* result lists the first TopN columns of cols in the order "smaller key
\* first" (larger first when descending), equal keys in insertion order
IsRanking(result, key, descending) ==
    LET Before(p, q) ==
            \/ IF descending THEN Lt(key[q], key[p]) ELSE Lt(key[p], key[q])
            \/ ~Lt(key[p], key[q]) /\ ~Lt(key[q], key[p]) /\ p < q
    IN  /\ Len(result) = (IF Len(cols) < TopN THEN Len(cols) ELSE TopN)
        /\ Range(result) \subseteq Range(cols)
        /\ \A i, j \in 1..Len(result) :
              i < j => Before(ColOf(cols, result[i]), ColOf(cols, result[j]))
        /\ \A i \in 1..Len(result), q \in 1..Len(cols) :
              cols[q] \notin Range(result) => Before(ColOf(cols, result[i]), q)

RankingDone ==
    /\ epc = "done"
    /\ ~raised
    /\ selection_mode \in {"Top Gainers", "Top Losers"}

FetchFailed(k) == series[k].raises \/ DOMAIN series[k].points = {}

Without(xs, k) == [i \in 1..(Len(xs) - 1) |-> IF i < k THEN xs[i] ELSE xs[i + 1]]

\* C6: when the fetch of one tracked symbol fails or comes back empty and the
\* others succeed, the cycle completes, the failed symbol is in no ranking and
\* in no partition, the others come out as if it were not tracked, and a
\* warning names it.
C6_FailedFetchIsExcluded ==
    epc = "done" =>
        \A k \in 1..Len(cols) :
            (/\ Len(cols) >= 2
             /\ FetchFailed(k)
             /\ \A j \in 1..Len(cols) : j # k => ~FetchFailed(j)) =>
                LET rest == Cycle(Without(cols, k), Without(series, k), y_axis,
                                  selection_mode,
                                  SelectSeq(multiselect, LAMBDA stock : stock # cols[k]))
                IN  /\ ~raised
                    /\ cols[k] \notin Range(selected_stocks) \cup Range(gainer_stocks)
                                          \cup Range(loser_stocks)
                    /\ selected_stocks = rest.selected_stocks
                    /\ gainer_stocks = rest.gainer_stocks
                    /\ loser_stocks = rest.loser_stocks
                    /\ cols[k] \in warnings

\* C8: every selected symbol is in exactly one of the two lists: those whose
\* percentChange is > 0 in gainers, all others (zero, negative, undefined) in
\* losers, each list in selection order.
C8_ManualPartitionIsTotal ==
    (epc = "done" /\ ~raised /\ selection_mode = "Manual Selection") =>
        LET pct == ChangesBy("Percentage Change")
        IN  /\ gainer_stocks =
                  SelectSeq(multiselect, LAMBDA stock : GtZero(pct[ColOf(cols, stock)]))
            /\ loser_stocks =
                  SelectSeq(multiselect, LAMBDA stock : ~GtZero(pct[ColOf(cols, stock)]))

----------------------------------------------------------------------------
(* SpecStore: save, load, save again *)

\* longest display name tried
MaxNameLen == 2

\* display names are single-line strings
NameChars == {"x", Comma, Space}

RECURSIVE Strings(_, _)
Strings(chars, n) ==
    IF n = 0 THEN {<<>>}
    ELSE LET shorter == Strings(chars, n - 1)
         IN  shorter \cup {Append(s, c) : s \in shorter, c \in chars}

DisplayNames == Strings(NameChars, MaxNameLen)

\* the mappings tried: no entry, A, B, A then B, B then A, under every name
StoreMappings ==
    LET Entry(symbol, name) == [symbol |-> symbol, name |-> name]
        a == <<UpperChars[1]>>
        b == <<UpperChars[2]>>
    IN  {<<>>}
        \cup {<<Entry(k, n)>> : k \in {a, b}, n \in DisplayNames}
        \cup {<<Entry(a, n), Entry(b, m)>> : n \in DisplayNames, m \in DisplayNames}
        \cup {<<Entry(b, n), Entry(a, m)>> : n \in DisplayNames, m \in DisplayNames}

InitStore ==
    /\ StoreIdle
    /\ EngineIdle
    /\ \E stocks \in StoreMappings : roundtrip = RoundTripInput(stocks)

\* lines 16-19 on the mapping
SaveFirst ==
    /\ spc = "in"
    /\ roundtrip' = [roundtrip EXCEPT !.spc = "saved",
                                      !.content1 = save_tracked_stocks(stocks0)]
    /\ UNCHANGED <<storeVars, cycle>>

\* lines 10-14 on what was saved
LoadBack ==
    /\ spc = "saved"
    /\ LET r == load_tracked_stocks(content1)
       IN  roundtrip' = IF r.ok
                        THEN [roundtrip EXCEPT !.spc = "loaded", !.stocks1 = r.stocks]
                        ELSE [roundtrip EXCEPT !.spc = "load_raised"]
    /\ UNCHANGED <<storeVars, cycle>>

\* lines 16-19 on the loaded mapping, unmodified
SaveAgain ==
    /\ spc = "loaded"
    /\ roundtrip' = [roundtrip EXCEPT !.spc = "resaved",
                                      !.content2 = save_tracked_stocks(stocks1)]
    /\ UNCHANGED <<storeVars, cycle>>

NextStore == SaveFirst \/ LoadBack \/ SaveAgain

SpecStore == InitStore /\ [][NextStore]_vars

\* C9: loading what save_tracked_stocks wrote and saving it again, unmodified,
\* gives the same set of lines, whatever the display names.
C9_RoundTrip ==
    /\ spc # "load_raised"
    /\ spc = "resaved" => FileLineSet(content2) = FileLineSet(content1)

====
